---------------------------- MODULE Spec2Model ----------------------------
(***************************************************************************)
(* A model of longman_parser.py: main() reads a word list, download()s the *)
(* dictionary page of each word and parse() turns the page into rows of    *)
(* the Anki import file, downloading the audio files the page refers to.   *)
(*                                                                         *)
(* Texts are sequences of one-character strings, so that the searches and  *)
(* replacements of the script are computed character by character.         *)
(***************************************************************************)
EXTENDS Integers, Sequences, FiniteSets, TLC

(***************************************************************************)
(* Python's str operations, on sequences of characters.                    *)
(***************************************************************************)

\* the least element of a set of integers, or else when it is empty
LeastOr(S, else) == IF S = {} THEN else ELSE CHOOSE m \in S : \A n \in S : m <= n

\* the greatest element of a set of integers, or else when it is empty
GreatestOr(S, else) == IF S = {} THEN else ELSE CHOOSE m \in S : \A n \in S : m >= n

\* s[i:i+len(p)] == p
MatchAt(s, p, i) ==
    /\ i >= 1
    /\ i + Len(p) - 1 <= Len(s)
    /\ p = <<>> \/ s[i] = p[1]
    /\ \A k \in 1..Len(p) : s[i + k - 1] = p[k]

\* s.find(p, i): the first index >= i at which p occurs in s, 0 when there is none
Find(s, p, i) == LeastOr({j \in i..(Len(s) - Len(p) + 1) : MatchAt(s, p, j)}, 0)

\* p in s
Occurs(p, s) == Find(s, p, 1) # 0

\* s.replace(old, new), old not empty: every non-overlapping occurrence, left to right;
\* ReplaceAt continues from i, the next occurrence being at j
RECURSIVE ReplaceFrom(_, _, _, _)
ReplaceAt(s, old, new, i, j) ==
    IF j = 0 THEN SubSeq(s, i, Len(s))
    ELSE SubSeq(s, i, j - 1) \o new \o ReplaceFrom(s, old, new, j + Len(old))

ReplaceFrom(s, old, new, i) == ReplaceAt(s, old, new, i, Find(s, old, i))

\* s.replace("", new) puts new before every character and at the end
RECURSIVE Intersperse(_, _, _)
Intersperse(s, new, i) ==
    IF i > Len(s) THEN new ELSE new \o <<s[i]>> \o Intersperse(s, new, i + 1)

Replace(s, old, new) ==
    IF old = <<>> THEN Intersperse(s, new, 1) ELSE ReplaceFrom(s, old, new, 1)

\* s.count(p), p not empty
RECURSIVE CountFrom(_, _, _)
CountAt(s, p, j) == IF j = 0 THEN 0 ELSE 1 + CountFrom(s, p, j + Len(p))

CountFrom(s, p, i) == CountAt(s, p, Find(s, p, i))

Count(s, p) == CountFrom(s, p, 1)

Whitespace == {" ", "\t", "\n", "\r"}

\* s.lstrip()
RECURSIVE LStrip(_)
LStrip(s) == IF s # <<>> /\ Head(s) \in Whitespace THEN LStrip(Tail(s)) ELSE s

\* s.rstrip()
RECURSIVE RStrip(_)
RStrip(s) ==
    IF s # <<>> /\ s[Len(s)] \in Whitespace THEN RStrip(SubSeq(s, 1, Len(s) - 1)) ELSE s

\* s.strip()
Strip(s) == LStrip(RStrip(s))

\* sep.join(parts)
RECURSIVE Join(_, _)
Join(parts, sep) ==
    IF parts = <<>> THEN <<>>
    ELSE IF Len(parts) = 1 THEN parts[1]
    ELSE parts[1] \o sep \o Join(Tail(parts), sep)

\* s.split(sep), sep not empty; SplitAt continues from i, the next separator being at j
RECURSIVE SplitFrom(_, _, _)
SplitAt(s, sep, i, j) ==
    IF j = 0 THEN <<SubSeq(s, i, Len(s))>>
    ELSE <<SubSeq(s, i, j - 1)>> \o SplitFrom(s, sep, j + Len(sep))

SplitFrom(s, sep, i) == SplitAt(s, sep, i, Find(s, sep, i))

Split(s, sep) == SplitFrom(s, sep, 1)

Digit(d) == <<"0", "1", "2", "3", "4", "5", "6", "7", "8", "9">>[d + 1]

\* str(n), n >= 0
RECURSIVE Str(_)
Str(n) == IF n < 10 THEN <<Digit(n)>> ELSE Str(n \div 10) \o <<Digit(n % 10)>>

(***************************************************************************)
(* The regular expressions of the script, each computed as Python's re     *)
(* computes it (leftmost match, greedy or lazy quantifiers, "." matching   *)
(* every character but the newline).                                       *)
(***************************************************************************)

\* Python's None, where a text is expected: no text is a sequence of this one element
None == <<"None">>

\* "." in a pattern
Wild == "ANY"

\* \w
WordChar ==
    {"a","b","c","d","e","f","g","h","i","j","k","l","m","n","o","p","q","r","s","t","u","v",
     "w","x","y","z","A","B","C","D","E","F","G","H","I","J","K","L","M","N","O","P","Q","R",
     "S","T","U","V","W","X","Y","Z","0","1","2","3","4","5","6","7","8","9","_"}

\* pat, a sequence of characters and Wild, matches s at i
PatAt(s, pat, i) ==
    /\ i >= 1
    /\ i + Len(pat) - 1 <= Len(s)
    /\ \A k \in 1..Len(pat) :
          IF pat[k] = Wild THEN s[i + k - 1] # "\n" ELSE s[i + k - 1] = pat[k]

\* \w+ from i, as long as possible: the index of the first character that is not \w
WordRunEnd(s, i) == LeastOr({j \in i..Len(s) : s[j] \notin WordChar}, Len(s) + 1)

\* [^/]+ from i, as long as possible: the index of the first "/"
SegmentEnd(s, i) == LeastOr({j \in i..Len(s) : s[j] = "/"}, Len(s) + 1)

\* the index of the first newline at or after i, Len(s) + 1 if none
LineEnd(s, i) == LeastOr({j \in i..Len(s) : s[j] = "\n"}, Len(s) + 1)

AttrOpen == <<"d","a","t","a","-","s","r","c","-","m","p","3","=","\"">>

\* data-src-mp3="(https://d27ucmmhxk51xv.cloudfront.net/media/english/ : the dots are wildcards
AudioHead ==
    AttrOpen \o <<"h","t","t","p","s",":","/","/","d","2","7","u","c","m","m","h","x","k","5","1",
      "x","v">> \o <<Wild>> \o <<"c","l","o","u","d","f","r","o","n","t">> \o <<Wild>>
             \o <<"n","e","t","/","m","e","d","i","a","/","e","n","g","l","i","s","h","/">>

Mp3Ext == <<".","m","p","3">>

\* .+\.mp3 after the "/" at r: .+ runs to the last .mp3 of the line; 0 if there is none
AudioTailEnd(s, r) ==
    GreatestOr({k \in (r + 2)..(LineEnd(s, r + 1) - 4) : MatchAt(s, Mp3Ext, k)}, -3) + 3

\* \w+/ from w, the run of \w ending before r, then AudioTailEnd
AudioDirEnd(s, w, r) ==
    IF r = w \/ r > Len(s) \/ s[r] # "/" THEN 0 ELSE AudioTailEnd(s, r)

\* The last index of the match of the pattern of get_audio that starts at i, 0 if none
AudioMatchEnd(s, i) ==
    IF ~PatAt(s, AudioHead, i) THEN 0
    ELSE AudioDirEnd(s, i + Len(AudioHead), WordRunEnd(s, i + Len(AudioHead)))

\* re.findall(r'data-src-mp3="(https://...english/\w+/.+\.mp3)', html): the groups of the
\* non-overlapping matches, in document order; FindAllAt continues with the match at j
RECURSIVE FindAllFrom(_, _)
FindAllGroup(s, j, e) == <<SubSeq(s, j + Len(AttrOpen), e)>> \o FindAllFrom(s, e + 1)

FindAllAt(s, j) == IF j = 0 THEN <<>> ELSE FindAllGroup(s, j, AudioMatchEnd(s, j))

FindAllFrom(s, i) == FindAllAt(s, LeastOr({j \in i..Len(s) : AudioMatchEnd(s, j) # 0}, 0))

FindAllAudio(html) == FindAllFrom(html, 1)

\* The last index of the match of ([^/]+.mp3) that starts at i, 0 if none: characters other
\* than "/" up to r (as many as possible), any character, "mp3"
NameEnd(s, i, r) ==
    GreatestOr({k \in (i + 1)..r : k <= Len(s) /\ s[k] # "\n" /\ MatchAt(s, <<"m","p",
      "3">>, k + 1)},
               -3) + 3

NameMatchEnd(s, i) == NameEnd(s, i, SegmentEnd(s, i))

\* s[i..e], None when i = 0
GroupAt(s, i, e) == IF i = 0 THEN None ELSE SubSeq(s, i, e)

\* the leftmost match of ([^/]+.mp3) starts at i
NameAt(s, i) == GroupAt(s, i, NameMatchEnd(s, i))

\* re.search(r'([^/]+.mp3)', audio): None, or group(0) of the leftmost match
SearchFileName(audio) ==
    NameAt(audio, LeastOr({i \in 1..Len(audio) : NameMatchEnd(audio, i) # 0}, 0))

DEFOpen == <<"<","s","p","a","n"," ","c","l","a","s","s","=","\"","D","E","F","\"",">">>
SpanClose == <<"<","/","s","p","a","n",">">>

\* (.+?)</span> from b: the first </span> that leaves (.+?) at least one character, in the
\* same line; the last index of the match, 0 if none
DEFCloseEnd(s, b) ==
    LeastOr({j \in (b + 1)..(LineEnd(s, b) - Len(SpanClose)) : MatchAt(s, SpanClose, j)},
            1 - Len(SpanClose)) + Len(SpanClose) - 1

\* The last index of the match of <span class="DEF">(.+?)</span> that starts at i, 0 if none
DEFMatchEnd(s, i) == IF ~MatchAt(s, DEFOpen, i) THEN 0 ELSE DEFCloseEnd(s, i + Len(DEFOpen))

DEFAt(s, i) == GroupAt(s, i, DEFMatchEnd(s, i))

\* re.search(r'<span class="DEF">(.+?)</span>', meaning): None, or group(0)
SearchDEF(meaning) ==
    DEFAt(meaning, LeastOr({i \in 1..Len(meaning) : DEFMatchEnd(meaning, i) # 0}, 0))

ScriptOpen == <<"<","s","c","r","i","p","t">>
ScriptClose == <<"<","/","s","c","r","i","p","t",">">>

\* (\n|.)+?</script> after the ">" at g: the first </script> that leaves at least one
\* character; the last index of the match, 0 if g = 0
ScriptCloseEnd(s, g) ==
    IF g = 0 THEN 0 ELSE Find(s, ScriptClose, g + 2) + Len(ScriptClose) - 1

\* .*> from b: the last ">" of the line after which a </script> can still be found
ScriptTagEnd(s, b) ==
    GreatestOr({g \in b..(LineEnd(s, b) - 1) : s[g] = ">" /\ Find(s, ScriptClose, g + 2) # 0},
               0)

\* The last index of the match of (<script.*>(\n|.)+?</script>) that starts at i, 0 if none
ScriptMatchEnd(s, i) ==
    IF ~MatchAt(s, ScriptOpen, i) THEN 0
    ELSE ScriptCloseEnd(s, ScriptTagEnd(s, i + Len(ScriptOpen)))

\* re.subn(r'(<script.*>(\n|.)+?</script>)', '', new_html)[0]; SubScriptsAt continues from
\* i, the next match starting at j
RECURSIVE SubScriptsFrom(_, _)
SubScriptsAt(s, i, j) ==
    IF j = 0 THEN SubSeq(s, i, Len(s))
    ELSE SubSeq(s, i, j - 1) \o SubScriptsFrom(s, ScriptMatchEnd(s, j) + 1)

SubScriptsFrom(s, i) ==
    SubScriptsAt(s, i, LeastOr({j \in i..Len(s) : ScriptMatchEnd(s, j) # 0}, 0))

(***************************************************************************)
(* The helper functions of parse().                                        *)
(***************************************************************************)

\* audiofile_name / the argument of '[sound:' ... ']' : re.search(...).group(0)
AudioFileName(audio) == SearchFileName(audio)

\* line 67
SoundTag(audio) == <<"[","s","o","u","n","d",":">> \o AudioFileName(audio) \o <<"]">>

\* line 68: one turn of the loop of put_sound_tags
PutOneTag(text, audio) == Replace(text, audio, SoundTag(audio))

\* put_sound_tags(html, audio_files): the references are replaced one after the other
RECURSIVE put_sound_tags(_, _)
put_sound_tags(text, audios) ==
    IF audios = <<>> THEN text
    ELSE put_sound_tags(PutOneTag(text, Head(audios)), Tail(audios))

\* del_advertisements(new_html)
del_advertisements(text) == SubScriptsFrom(text, 1)

GpsOpen == <<"<","g","p","s","k","e","y","w","o","r","d",">">>
GpsClose == <<"<","/","g","p","s","k","e","y","w","o","r","d",">">>

\* str() of what find() gave, without the except clause
FieldTextOfNone(element) == IF element = None THEN <<"N","o","n","e">> ELSE Strip(element)

\* soup_entry.find("span", ...).text.strip() under try/except: '' when find() gave None
FieldText(element) == IF element = None THEN <<>> ELSE Strip(element)

\* ... .text.strip().replace('$', '').lstrip() under try/except
AmeText(element) ==
    IF element = None THEN <<>> ELSE LStrip(Replace(Strip(element), <<"$">>, <<>>))

\* lines 89-123, word and str(count) given
InfoOf(word, entry, count) ==
    <<word \o <<"_">> \o count, word, count, FieldText(entry.PRON), AmeText(entry.AMEVARPRON),
      FieldText(entry.LEVEL), FieldText(entry.POS), FieldText(entry.GRAM)>>

\* parse_info(soup_entry, count), with title the text of soup.find("h1", pagetitle)
parse_info(title, entry, count) ==
    InfoOf(GpsOpen \o Strip(title) \o GpsClose, entry, Str(count))

SenseOpen == <<"<","s","p","a","n"," ","c","l","a","s","s","=","\"","S","e","n","s","e","\"">>

\* the private delimiter of parse_entry (one character, U+058D)
Delim == "U+058D"

\* content[0:30]
PrefixLen == 30

\* line 130: content
Content(entry) == Replace(Replace(Replace(entry, <<"\t">>, <<" "," ">>), <<"\n">>, <<>>), <<"/",
      "r">>, <<" ">>)

\* lines 131-132: content3, n being the length of content[0:30]
Content3(content, n) ==
    Replace(SubSeq(content, 1, n)
              \o Replace(SubSeq(content, n + 1, Len(content)), SenseOpen, <<"\r",
      "\n">> \o SenseOpen),
            SenseOpen, <<Delim>> \o SenseOpen)

\* line 134: glosses
GlossesOf(content) ==
    Split(Content3(content, IF Len(content) < PrefixLen THEN Len(content) ELSE PrefixLen),
          <<Delim>>)

Glosses(entry) == GlossesOf(Content(entry))

\* line 135: glosses[1], an IndexError (None) when there is no second gloss
Meaning(glosses) == IF Len(glosses) < 2 THEN None ELSE glosses[2]

\* parse_entry(entry, word)[0]
parse_entry(entry) == Meaning(Glosses(entry))

\* line 187
WrapKeyword(meaning, word) == Replace(meaning, word, GpsOpen \o word \o GpsClose)

\* lines 186-187: the keyword is unwrapped, then wrapped wherever it occurs in the meaning
TagKeyword(meaning, headword) ==
    WrapKeyword(meaning, Replace(Replace(headword, GpsOpen, <<>>), GpsClose, <<>>))

\* line 189
HasDEF(meaning) == Occurs(DEFOpen, meaning)

\* line 191; None when target is None (target.group raises AttributeError)
ClozeTarget(meaning, target, count) ==
    IF target = None THEN None
    ELSE Replace(meaning, target, <<"{","{","c">> \o count \o <<":",":">> \o target \o <<"}","}">>)

\* lines 190-191
ClozeDEF(meaning, count) == ClozeTarget(meaning, SearchDEF(meaning), Str(count))

\* lines 184-187: the meaning of a Sense span, the keyword tagged in it; None when
\* parse_entry raises IndexError
TagMeaning(meaning, headword) ==
    IF meaning = None THEN None ELSE TagKeyword(meaning, headword)

TaggedMeaning(entry, headword) == TagMeaning(parse_entry(entry), headword)

\* lines 189-192: the tagged meaning with its cloze marker, if it has a DEF span
ClozeMeaning(meaning, count) ==
    IF meaning = None THEN None
    ELSE IF HasDEF(meaning) THEN ClozeDEF(meaning, count)
    ELSE meaning

\* lines 184-192: what a Sense span adds to ankified_entries, None when an error is raised
Ankify(entry, headword, count) == ClozeMeaning(TaggedMeaning(entry, headword), count)

LongmanIntro == <<"F","r","o","m"," ","L","o","n","g","m","a","n"," ","D","i","c","t","i","o","n",
      "a","r","y"," ","o","f"," ","C","o","n","t","e","m","p","o","r","a","r","y"," ","E","n","g",
      "l","i","s","h">>

\* str(dict_name)
StrOf(element) == IF element = None THEN <<"N","o","n","e">> ELSE element

\* the condition of line 166 without its first operand
IsLongmanIntro(dict_name) == Occurs(LongmanIntro, StrOf(dict_name))

\* line 166: not dict_name or 'From Longman ...' in str(dict_name)
IsLongmanEntry(dict_name) == dict_name = None \/ Occurs(LongmanIntro, StrOf(dict_name))

\* '\t'.join([ankified_entries] + [''] + header)
FinalAnki(ankified, hdr) == Join(<<ankified, <<>>>> \o hdr, <<"\t">>)

(***************************************************************************)
(* The dictionary site, as far as the script sees it.  A page is the text  *)
(* download() returns, with the tree BeautifulSoup builds from it: the     *)
(* title of the page and, for each dictentry span, its introductory span,  *)
(* its header spans (None when the entry has none) and the lines of the    *)
(* text that hold its Sense spans.                                         *)
(***************************************************************************)

Cdn == <<"h","t","t","p","s",":","/","/","d","2","7","u","c","m","m","h","x","k","5","1","x","v",
      ".","c","l","o","u","d","f","r","o","n","t",".","n","e","t","/","m","e","d","i","a","/","e",
      "n","g","l","i","s","h","/">>

IntroLongman == <<"<","s","p","a","n"," ","c","l","a","s","s","=","\"","d","i","c","t","i","o","n",
      "a","r","y","_","i","n","t","r","o"," ","s","p","a","n","\"",">","F","r","o","m"," ","L","o",
      "n","g","m","a","n"," ","D","i","c","t","i","o","n","a","r","y"," ","o","f"," ","C","o","n",
      "t","e","m","p","o","r","a","r","y"," ","E","n","g","l","i","s","h","<","/","s","p","a","n",
      ">">>
IntroBusiness == <<"<","s","p","a","n"," ","c","l","a","s","s","=","\"","d","i","c","t","i","o","n",
      "a","r","y","_","i","n","t","r","o"," ","s","p","a","n","\"",">","F","r","o","m"," ","L","o",
      "n","g","m","a","n"," ","B","u","s","i","n","e","s","s"," ","D","i","c","t","i","o","n","a",
      "r","y","<","/","s","p","a","n",">">>

Entry(intro, pron, ame, level, pos, gram, senses) ==
    [intro |-> intro, PRON |-> pron, AMEVARPRON |-> ame, LEVEL |-> level, POS |-> pos,
     GRAM |-> gram, senses |-> senses]

PageRun ==
    [title |-> <<" ","r","u","n"," ">>,
     html |-> <<"<","h","1"," ","c","l","a","s","s","=","\"","p","a","g","e","t","i","t","l","e",
      "\"",">"," ","r","u","n"," ","<","/","h","1",">","\n">>
           \o <<"<","s","p","a","n"," ","c","l","a","s","s","=","\"","S","e","n","s","e","\"",">",
      "<","s","p","a","n"," ","c","l","a","s","s","=","\"","D","E","F","\"",">","t","o"," ","r","u",
      "n"," ","f","a","s","t","<","/","s","p","a","n",">","<","/","s","p","a","n",">","\n">>
           \o <<"<","s","c","r","i","p","t"," ","t","y","p","e","=","\"","t","e","x","t","/","j",
      "a","v","a","s","c","r","i","p","t","\"",">","a","d","s","(",")",";","<","/","s","c","r","i",
      "p","t",">","\n">>
           \o <<"<","s","p","a","n"," ","c","l","a","s","s","=","\"","S","e","n","s","e","\"",">",
      "<","s","p","a","n"," ","c","l","a","s","s","=","\"","D","E","F","\"",">","t","o"," ","f","l",
      "o","w","<","/","s","p","a","n",">","<","s","p","a","n"," ","d","a","t","a","-","s","r","c",
      "-","m","p","3","=","\"">>
           \o Cdn \o <<"e","x","a","/","r","1",".","m","p","3","\"",">","<","/","s","p","a","n",">",
      "<","/","s","p","a","n",">","\n">>
           \o <<"<","s","p","a","n"," ","c","l","a","s","s","=","\"","S","e","n","s","e","\"",">",
      "a"," ","r","u","n"," ","o","n"," ","t","h","e"," ","b","a","n","k","<","/","s","p","a","n",
      ">">>,
     entries |-> <<Entry(IntroLongman, <<"r","V","n">>, <<" ","$"," ","r","V","n">>, <<"S",
      "1">>, <<" ","v","e","r","b">>, <<"[","I","]">>, <<2, 4>>),
                   Entry(IntroBusiness, None, None, None, <<"n","o","u","n">>, None, <<5>>),
                   Entry(None, None, <<"$"," ","r","u","n"," ">>, None, None, None, <<5>>)>>]

PageSpan ==
    [title |-> <<"s","p","a","n">>,
     html |-> <<"<","s","p","a","n"," ","c","l","a","s","s","=","\"","S","e","n","s","e","\"",">",
      "<","s","p","a","n"," ","c","l","a","s","s","=","\"","D","E","F","\"",">","a"," ","p","e","r",
      "i","o","d"," ","o","f"," ","t","i","m","e","<","/","s","p","a","n",">","<","/","s","p","a",
      "n",">","\n">>
           \o <<"<","s","p","a","n"," ","i","d","=","\"","s","2","\""," ","c","l","a","s","s","=",
      "\"","S","e","n","s","e","\"",">","t","o"," ","s","p","a","n"," ","a"," ","r","i","v","e","r",
      "<","/","s","p","a","n",">">>,
     entries |-> <<Entry(None, <<"s","p","&","n">>, None, None, <<"n","o","u","n">>, None, <<1>>),
                   Entry(None, None, None, None, <<"v","e","r","b">>, None, <<2>>)>>]

PageBank ==
    [title |-> <<"b","a","n","k">>,
     html |-> <<"<","s","p","a","n"," ","d","a","t","a","-","s","r","c","-","m","p","3","=",
      "\"">> \o Cdn \o <<"x","/","a",".","m","p","3","\"",">","<","/","s","p","a","n",">","\n">>
           \o <<"<","s","p","a","n"," ","c","l","a","s","s","=","\"","S","e","n","s","e","\"",">",
      "<","s","p","a","n"," ","d","a","t","a","-","s","r","c","-","m","p","3","=",
      "\"">> \o Cdn \o <<"x","/","a",".","m","p","3",".","m","p","3","\"",">","<","/","s","p","a",
      "n",">","<","/","s","p","a","n",">">>,
     entries |-> <<Entry(IntroBusiness, None, None, None, None, None, <<2>>),
                   Entry(IntroLongman, None, None, <<"S","2">>, None, <<"[","C","]">>, <<2>>)>>]

PageUntitled ==
    [title |-> None,
     html |-> <<"<","s","p","a","n"," ","c","l","a","s","s","=","\"","S","e","n","s","e","\"",">",
      "n","o"," ","t","i","t","l","e","<","/","s","p","a","n",">">>,
     entries |-> <<Entry(IntroBusiness, None, None, None, None, None, <<1>>),
                   Entry(None, <<"p","r","o","n">>, None, None, None, None, <<1>>)>>]

Words == {"run", "span", "bank", "untitled", "apple"}

\* the words the site has a page of: it answers HTTP 404 for the others
HasPage(word) == word \in {"run", "span", "bank", "untitled"}

\* the page of a word
Web(word) ==
    CASE word = "run" -> PageRun
      [] word = "span" -> PageSpan
      [] word = "bank" -> PageBank
      [] word = "untitled" -> PageUntitled

\* what urlopen / urlretrieve can do: succeed, raise an HTTPError, raise another error
HTTPErrors == {"HTTPError 404", "HTTPError 500"}
OtherErrors == {"URLError"}
Failures == HTTPErrors \cup OtherErrors

\* an except clause for the status 404 alone
CaughtNotFound(failure) == failure = "HTTPError 404"

\* except urllib.error.HTTPError (line 56)
Caught(failure) == failure \in HTTPErrors

\* the longest word list
MaxWords == 2

\* the most audio downloads that fail in a run
MaxFailures == 1

\* the longest list of Sense spans of an entry
MaxSenses == 2

SeqsUpTo(S, n) == UNION {[1..k -> S] : k \in 1..n}

(***************************************************************************)
(* The state.                                                              *)
(***************************************************************************)
VARIABLES
    wordlist,          \* the lines of WORDLIST_PATH
    wi,                \* the number of words the loop of main() has taken
    pc,                \* where the script is
    error,             \* the uncaught exception that ended the run, None if none
    io,                \* the calls of urlopen, urlretrieve and output_file.write so far
    media,             \* the names of the files in ANKI_MEDIA_FOLDER
    stdout,            \* what was printed
    html,              \* parse(): the page
    audio_files,       \* get_audio(): the references found
    ai,                \* get_audio(): the number of references the loop has taken
    new_html,          \* parse(): the page with sound tags
    ads_removed,       \* parse(): the page without advertisements
    soup,              \* parse(): the tree of ads_removed
    ei,                \* parse(): the number of dict_entries the loop has taken
    entry_count,       \* parse()
    text,              \* parse(): the rows of the word
    header,            \* parse(): the header of the entry
    entries,           \* parse(): the Sense spans of the entry
    si,                \* parse(): the number of Sense spans the inner loop has taken
    cloze_count,       \* parse()
    ankified_entries   \* parse()

vars == <<wordlist, wi, pc, error, io, media, stdout, html, audio_files, ai, new_html,
          ads_removed, soup, ei, entry_count, text, header, entries, si, cloze_count,
          ankified_entries>>

mainVars == <<wordlist, wi>>
audioVars == <<html, audio_files, ai>>
pageVars == <<new_html, ads_removed, soup>>
entryVars == <<ei, entry_count, text>>
senseVars == <<header, entries, si, cloze_count, ankified_entries>>

\* a call of the outside world made for the w-th word
Event(op, w, arg, result) == [op |-> op, w |-> w, arg |-> arg, result |-> result]

NoError == [exc |-> "", at |-> ""]

\* an exception nothing catches ends the run
Raise(exc, at) ==
    /\ pc' = "crashed"
    /\ error' = [exc |-> exc, at |-> at]

\* the audio downloads that failed so far
Failed == {k \in 1..Len(io) : io[k].op = "urlretrieve" /\ io[k].result # "ok"}

\* the lines of a text
Lines(t) == Split(t, <<"\n">>)

\* the Sense spans of an entry, given as line numbers, in the text
SenseSpans(lines, numbers) == [j \in 1..Len(numbers) |-> lines[numbers[j]]]

\* the tree of a page over the lines of the text
SoupOf(page, lines) ==
    [title |-> page.title,
     entries |-> [k \in 1..Len(page.entries) |->
                    [page.entries[k] EXCEPT !.senses = SenseSpans(lines, @)]]]

\* BeautifulSoup(ads_removed): the tree of the page, over the text as it is now
Soup(page, cleaned) == SoupOf(page, Lines(cleaned))

Init ==
    /\ wordlist \in SeqsUpTo(Words, MaxWords)
    /\ wi = 0
    /\ pc = "main"
    /\ error = NoError
    /\ io = <<>>
    /\ media = {}
    /\ stdout = <<>>
    /\ html = <<>>
    /\ audio_files = <<>>
    /\ ai = 0
    /\ new_html = <<>>
    /\ ads_removed = <<>>
    /\ soup = [title |-> None, entries |-> <<>>]
    /\ ei = 0
    /\ entry_count = 0
    /\ text = <<>>
    /\ header = <<>>
    /\ entries = <<>>
    /\ si = 0
    /\ cloze_count = 1
    /\ ankified_entries = <<>>

(***************************************************************************)
(* main()                                                                  *)
(***************************************************************************)

\* lines 212-215: the next word is taken, its page downloaded and handed to parse()
Download ==
    /\ pc = "main"
    /\ wi < Len(wordlist)
    /\ HasPage(wordlist[wi + 1])
    /\ wi' = wi + 1
    /\ io' = Append(io, Event("urlopen", wi + 1, wordlist[wi + 1], "ok"))
    /\ html' = Web(wordlist[wi + 1]).html
    /\ pc' = "get_audio"
    /\ UNCHANGED <<wordlist, error, media, stdout, audio_files, ai, pageVars, entryVars,
                   senseVars>>

\* a failed urlopen that main() would pass over
DownloadSkips ==
    /\ pc = "main"
    /\ wi < Len(wordlist)
    /\ \E failure \in Failures :
          /\ ~HasPage(wordlist[wi + 1]) => failure = "HTTPError 404"
          /\ io' = Append(io, Event("urlopen", wi + 1, wordlist[wi + 1], failure))
    /\ wi' = wi + 1
    /\ UNCHANGED <<wordlist, pc, error, media, stdout, audioVars, pageVars, entryVars,
                   senseVars>>

\* line 30 raises: the site has no page for the word, or the network fails
DownloadFails ==
    /\ pc = "main"
    /\ wi < Len(wordlist)
    /\ \E failure \in Failures :
          /\ ~HasPage(wordlist[wi + 1]) => failure = "HTTPError 404"
          /\ io' = Append(io, Event("urlopen", wi + 1, wordlist[wi + 1], failure))
    /\ wi' = wi + 1
    /\ Raise("error of urlopen", "download")
    /\ UNCHANGED <<wordlist, media, stdout, audioVars, pageVars, entryVars, senseVars>>

\* lines 217-218
Finish ==
    /\ pc = "main"
    /\ wi = Len(wordlist)
    /\ stdout' = Append(stdout, "Done")
    /\ pc' = "done"
    /\ UNCHANGED <<mainVars, error, io, media, audioVars, pageVars, entryVars, senseVars>>

\* the counter left as the word before left it
FirstCountKept == entry_count

\* line 155: entry_count = 0
FirstCount == 0

\* the loop left after its first reference
AudioLoopOverEarly == ai >= 1 \/ ai = Len(audio_files)

\* line 51: the loop over audio_files has taken every reference
AudioLoopOver == ai = Len(audio_files)

\* the loop taking the first Sense span only
MoreSensesOfFirst == si < 1 /\ si < Len(entries)

\* line 179: the loop over the Sense spans has a span left
MoreSenses == si < Len(entries)

(***************************************************************************)
(* parse(): the audio files                                                *)
(***************************************************************************)

\* lines 47-49 of get_audio
GetAudio ==
    /\ pc = "get_audio"
    /\ audio_files' = FindAllAudio(html)
    /\ ai' = 0
    /\ stdout' = Append(stdout, "There are audio files")
    /\ pc' = "audio"
    /\ UNCHANGED <<mainVars, error, io, media, html, pageVars, entryVars, senseVars>>

\* lines 53-55: the file of the next reference is retrieved into the media folder
Retrieve ==
    /\ pc = "audio"
    /\ ai < Len(audio_files)
    /\ AudioFileName(audio_files[ai + 1]) # None
    /\ io' = Append(io, Event("urlretrieve", wi, audio_files[ai + 1], "ok"))
    /\ media' = media \cup {AudioFileName(audio_files[ai + 1])}
    /\ stdout' = Append(stdout, "downloaded")
    /\ ai' = ai + 1
    /\ UNCHANGED <<mainVars, pc, error, html, audio_files, pageVars, entryVars, senseVars>>

\* lines 56-57: urlretrieve raises an error the except clause catches
RetrieveMissing ==
    /\ pc = "audio"
    /\ ai < Len(audio_files)
    /\ AudioFileName(audio_files[ai + 1]) # None
    /\ Cardinality(Failed) < MaxFailures
    /\ \E failure \in Failures :
          /\ Caught(failure)
          /\ io' = Append(io, Event("urlretrieve", wi, audio_files[ai + 1], failure))
    /\ stdout' = Append(stdout, "is missing")
    /\ ai' = ai + 1
    /\ UNCHANGED <<mainVars, pc, error, media, html, audio_files, pageVars, entryVars,
                   senseVars>>

\* lines 53-54 raise an error no except clause catches: re.search gave None, or urlretrieve
\* failed otherwise
RetrieveFails ==
    /\ pc = "audio"
    /\ ai < Len(audio_files)
    /\ \/ /\ AudioFileName(audio_files[ai + 1]) = None
          /\ Raise("AttributeError", "get_audio")
          /\ io' = io
       \/ /\ AudioFileName(audio_files[ai + 1]) # None
          /\ Cardinality(Failed) < MaxFailures
          /\ \E failure \in Failures :
                /\ ~Caught(failure)
                /\ io' = Append(io, Event("urlretrieve", wi, audio_files[ai + 1], failure))
          /\ Raise("error of urlretrieve", "get_audio")
    /\ UNCHANGED <<mainVars, media, stdout, audioVars, pageVars, entryVars, senseVars>>

\* lines 58 and 139-155: get_audio returns audio_files; sound tags, advertisements, the tree
PutSoundTags ==
    /\ pc = "audio"
    /\ AudioLoopOver
    /\ \A k \in 1..Len(audio_files) : AudioFileName(audio_files[k]) # None
    /\ new_html' = put_sound_tags(html, audio_files)
    /\ ads_removed' = del_advertisements(new_html')
    /\ soup' = Soup(Web(wordlist[wi]), ads_removed')
    /\ text' = <<>>
    /\ entry_count' = FirstCount
    /\ ei' = 0
    /\ pc' = "entries"
    /\ UNCHANGED <<mainVars, error, io, media, stdout, audioVars, senseVars>>

(***************************************************************************)
(* parse(): the loop over dict_entries                                     *)
(***************************************************************************)

dict_entry == soup.entries[ei + 1]

\* lines 162-177: the entry is one of the Longman Dictionary of Contemporary English
AcceptEntry ==
    /\ pc = "entries"
    /\ ei < Len(soup.entries)
    /\ IsLongmanEntry(dict_entry.intro)
    /\ soup.title # None
    /\ entry_count' = entry_count + 1
    /\ header' = parse_info(soup.title, dict_entry, entry_count')
    /\ entries' = dict_entry.senses
    /\ cloze_count' = 1
    /\ ankified_entries' = <<>>
    /\ si' = 0
    /\ pc' = "senses"
    /\ UNCHANGED <<mainVars, error, io, media, stdout, audioVars, pageVars, ei, text>>

\* line 87 raises AttributeError: the page has no h1 of class pagetitle
ParseInfoFails ==
    /\ pc = "entries"
    /\ ei < Len(soup.entries)
    /\ IsLongmanEntry(dict_entry.intro)
    /\ soup.title = None
    /\ entry_count' = entry_count + 1
    /\ Raise("AttributeError", "parse_info")
    /\ UNCHANGED <<mainVars, io, media, stdout, audioVars, pageVars, ei, text, senseVars>>

\* lines 201-202
IgnoreEntry ==
    /\ pc = "entries"
    /\ ei < Len(soup.entries)
    /\ ~IsLongmanEntry(dict_entry.intro)
    /\ stdout' = Append(stdout, "Ignored dictionary")
    /\ ei' = ei + 1
    /\ UNCHANGED <<mainVars, pc, error, io, media, audioVars, pageVars, entry_count, text,
                   senseVars>>

\* the loop over dict_entries is over: parse() returns to main()
ParseReturns ==
    /\ pc = "entries"
    /\ ei = Len(soup.entries)
    /\ pc' = "main"
    /\ UNCHANGED <<mainVars, error, io, media, stdout, audioVars, pageVars, entryVars,
                   senseVars>>

(***************************************************************************)
(* parse(): the loop over the Sense spans of an entry                      *)
(***************************************************************************)

\* lines 184-194: one Sense span
AnkifySense ==
    /\ pc = "senses"
    /\ MoreSenses
    /\ \E tagged \in {TaggedMeaning(entries[si + 1], header[2])} :
       \E meaning \in {ClozeMeaning(tagged, cloze_count)} :
          /\ meaning # None
          /\ ankified_entries' = ankified_entries \o meaning
          /\ cloze_count' = IF HasDEF(tagged) THEN cloze_count + 1 ELSE cloze_count
    /\ si' = si + 1
    /\ UNCHANGED <<mainVars, pc, error, io, media, stdout, audioVars, pageVars, entryVars,
                   header, entries>>

\* lines 184-191 raise: IndexError in parse_entry, or AttributeError at target.group(0)
AnkifyFails ==
    /\ pc = "senses"
    /\ MoreSenses
    /\ \E tagged \in {TaggedMeaning(entries[si + 1], header[2])} :
          /\ ClozeMeaning(tagged, cloze_count) = None
          /\ IF tagged = None
             THEN Raise("IndexError", "parse_entry")
             ELSE Raise("AttributeError", "parse")
    /\ UNCHANGED <<mainVars, io, media, stdout, audioVars, pageVars, entryVars, senseVars>>

\* lines 196-199: the row of the entry
WriteRow ==
    /\ pc = "senses"
    /\ ~MoreSenses
    /\ LET final_anki == FinalAnki(ankified_entries, header)
       IN  /\ text' = Append(text, final_anki)
           /\ io' = Append(io, Event("write", wi, final_anki \o <<"\n">>, "ok"))
    /\ stdout' = Append(stdout, "The dictionary entry has been processed")
    /\ ei' = ei + 1
    /\ pc' = "entries"
    /\ UNCHANGED <<mainVars, error, media, audioVars, pageVars, entry_count, senseVars>>

Next ==
    \/ Download
    \/ DownloadFails
    \/ Finish
    \/ GetAudio
    \/ Retrieve
    \/ RetrieveMissing
    \/ RetrieveFails
    \/ PutSoundTags
    \/ AcceptEntry
    \/ ParseInfoFails
    \/ IgnoreEntry
    \/ ParseReturns
    \/ AnkifySense
    \/ AnkifyFails
    \/ WriteRow

Spec == Init /\ [][Next]_vars

(***************************************************************************)
(* The loop over the Sense spans on its own: lines 176-194 for every       *)
(* headword of Headwords and every list of Sense spans of SenseMarkups.    *)
(***************************************************************************)

Headwords == {<<"r","u","n">>, <<"s","p","a","n">>, <<"c","l","a","s","s">>, <<"b","a","n","k">>}

SenseMarkups ==
    {<<"<","s","p","a","n"," ","c","l","a","s","s","=","\"","S","e","n","s","e","\"",">","<","s",
      "p","a","n"," ","c","l","a","s","s","=","\"","D","E","F","\"",">","t","o"," ","r","u","n"," ",
      "f","a","s","t","<","/","s","p","a","n",">","<","/","s","p","a","n",">">>,
     <<"<","s","p","a","n"," ","c","l","a","s","s","=","\"","S","e","n","s","e","\""," ","i","d",
      "=","\"","s","2","\"",">","<","s","p","a","n"," ","c","l","a","s","s","=","\"","D","E","F",
      "\"",">","a"," ","t","i","m","e"," ","s","p","a","n","<","/","s","p","a","n",">"," ","t","h",
      "e"," ","b","a","n","k"," ","r","u","n","<","/","s","p","a","n",">">>,
     <<"<","s","p","a","n"," ","c","l","a","s","s","=","\"","S","e","n","s","e","\"",">","s","e",
      "e"," ","r","u","n","-","u","p","<","/","s","p","a","n",">">>,
     <<"<","s","p","a","n"," ","c","l","a","s","s","=","\"","S","e","n","s","e","\"",">","<","s",
      "p","a","n"," ","c","l","a","s","s","=","\"","D","E","F","\"",">","a"," ","c","l","a","s","s",
      "<","/","s","p","a","n",">","<","s","p","a","n"," ","c","l","a","s","s","=","\"","S","e","n",
      "s","e","\"",">","<","s","p","a","n"," ","c","l","a","s","s","=","\"","D","E","F","\"",">",
      "s","u","b","<","/","s","p","a","n",">","<","/","s","p","a","n",">","<","/","s","p","a","n",
      ">">>,
     <<"<","s","p","a","n"," ","c","l","a","s","s","=","\"","S","e","n","s","e","\"",">","<","s",
      "p","a","n"," ","c","l","a","s","s","=","\"","D","E","F","\"",">","<","s","p","a","n"," ","c",
      "l","a","s","s","=","\"","S","e","n","s","e","\"",">","x","<","/","s","p","a","n",">","<","/",
      "s","p","a","n",">","<","/","s","p","a","n",">">>,
     <<"<","s","p","a","n"," ","i","d","=","\"","s","6","\""," ","c","l","a","s","s","=","\"","S",
      "e","n","s","e","\"",">","o","d","d","<","/","s","p","a","n",">">>}

\* an entry without header spans
BareEntry == Entry(None, None, None, None, None, None, <<>>)

InitMarkup ==
    /\ wordlist = <<>>
    /\ wi = 0
    /\ pc = "senses"
    /\ error = NoError
    /\ io = <<>>
    /\ media = {}
    /\ stdout = <<>>
    /\ html = <<>>
    /\ audio_files = <<>>
    /\ ai = 0
    /\ new_html = <<>>
    /\ ads_removed = <<>>
    /\ soup = [title |-> None, entries |-> <<>>]
    /\ ei = 0
    /\ entry_count = 1
    /\ text = <<>>
    /\ \E title \in Headwords : header = parse_info(title, BareEntry, 1)
    /\ entries \in SeqsUpTo(SenseMarkups, MaxSenses)
    /\ si = 0
    /\ cloze_count = 1
    /\ ankified_entries = <<>>

NextMarkup ==
    \/ AnkifySense
    \/ AnkifyFails
    \/ WriteRow

SpecMarkup == InitMarkup /\ [][NextMarkup]_vars

(***************************************************************************)
(* What the claims speak of.                                               *)
(***************************************************************************)

\* the positions in io of the calls of op made for the w-th word
Calls(op, w) == {p \in 1..Len(io) : io[p].op = op /\ io[p].w = w}

\* the rows written for the w-th word, in the order of writing
Rows(w) == SelectSeq(io, LAMBDA e : e.op = "write" /\ e.w = w)

\* the fields of a row
Fields(row) == Split(row, <<"\t">>)

\* the sequence number in a row
SequenceNumber(row) == Fields(row)[5]

\* the entries among the first n of the page whose introductory span is absent or names the
\* Longman Dictionary of Contemporary English
Accepted(n) ==
    {k \in 1..n : soup.entries[k].intro = None \/ Occurs(LongmanIntro, soup.entries[k].intro)}

\* the same, of the page of a word
AcceptedOf(page) ==
    {k \in 1..Len(page.entries) :
        page.entries[k].intro = None \/ Occurs(LongmanIntro, page.entries[k].intro)}

\* parse() has returned for the w-th word
Returned(w) == w < wi \/ (w = wi /\ pc \in {"main", "done"})

\* what was printed since get_audio started for the word
PrintedForWord ==
    SubSeq(stdout,
           GreatestOr({p \in 1..Len(stdout) : stdout[p] = "There are audio files"}, 1),
           Len(stdout))

Printed(message, out) == Cardinality({p \in 1..Len(out) : out[p] = message})

InParse == pc \in {"entries", "senses"}

\* C1: the sequence numbers in the rows of a word are 1, 2, ..., K in the order of the rows,
\* K being the number of accepted entries of the word: the counter restarts for every
\* word, goes up by one for every accepted entry and stays for an ignored one.
C1_SequenceNumbers ==
    /\ \A w \in 1..wi : \A k \in 1..Len(Rows(w)) : SequenceNumber(Rows(w)[k].arg) = Str(k)
    /\ \A w \in 1..wi :
          Returned(w) /\ HasPage(wordlist[w])
             => Len(Rows(w)) = Cardinality(AcceptedOf(Web(wordlist[w])))
    /\ InParse => /\ Len(text) = Len(Rows(wi))
                  /\ Len(text) = Cardinality(Accepted(ei))
                  /\ entry_count = Len(text) + (IF pc = "senses" THEN 1 ELSE 0)

\* C1's case: a second word with two rows, an ignored entry between them, after a word
\* with rows
C1_Witness ==
    /\ pc = "done"
    /\ Len(Rows(1)) >= 1
    /\ Len(Rows(2)) = 2
    /\ wordlist[2] = "run"

\* C2: when a row of a word is written, the page of the word has been fetched exactly once
\* and every reference extracted from it has had its one download attempt.
C2_FetchAndAudioBeforeRows ==
    \A p \in 1..Len(io) :
       io[p].op = "write" =>
          /\ Cardinality(Calls("urlopen", io[p].w)) = 1
          /\ \A q \in Calls("urlopen", io[p].w) : q < p /\ io[q].result = "ok"
          /\ \A q \in Calls("urlretrieve", io[p].w) : q < p
          /\ Cardinality(Calls("urlretrieve", io[p].w))
                = Len(FindAllAudio(Web(wordlist[io[p].w]).html))

\* C2's case: a row of a word with two audio references is written
C2_Witness ==
    \E p \in 1..Len(io) :
       /\ io[p].op = "write"
       /\ Cardinality(Calls("urlretrieve", io[p].w)) = 2

\* C3: a failed fetch ends the run there: it is the last call made, the rows written are
\* rows of earlier words, and nothing follows.
C3_FetchFailureEndsRun ==
    \A p \in 1..Len(io) :
       io[p].op = "urlopen" /\ io[p].result # "ok" =>
          /\ p = Len(io)
          /\ pc = "crashed"
          /\ wi = io[p].w
          /\ \A q \in 1..(p - 1) : io[q].w < io[p].w

\* C3's case: the fetch of the second word fails after rows of the first were written
C3_Witness ==
    /\ pc = "crashed"
    /\ Len(wordlist) = 2
    /\ Len(Rows(1)) >= 1
    /\ Calls("urlopen", 2) # {}
    /\ io[Len(io)].result \in Failures

\* C4: of the entries the loop has taken, those with a row are those whose introductory span
\* is absent or contains the phrase; every other one is printed as ignored and leaves the
\* counter alone.
C4_EntryFilter ==
    InParse =>
       /\ Len(text) = Cardinality(Accepted(ei))
       /\ Printed("Ignored dictionary", PrintedForWord) = ei - Cardinality(Accepted(ei))
       /\ Printed("The dictionary entry has been processed", PrintedForWord)
             = Cardinality(Accepted(ei))
       /\ entry_count = Cardinality(Accepted(ei)) + (IF pc = "senses" THEN 1 ELSE 0)

\* C4's case: an entry with the phrase, an entry of another dictionary and an entry without
\* introductory span have been taken
C4_Witness ==
    /\ pc = "entries"
    /\ ei = 3
    /\ Len(text) = 2
    /\ soup.entries[3].intro = None
    /\ soup.entries[2].intro # None

\* C5 as claimed: only "resource not found" is recovered, every other failure of an audio
\* download ends the run.
C5_OnlyNotFoundRecovered ==
    \A p \in 1..Len(io) :
       io[p].op = "urlretrieve" /\ io[p].result \notin {"ok", "HTTPError 404"} =>
          p = Len(io) /\ pc = "crashed"

\* C5, amended: a failed audio download is recovered exactly when the failure is an
\* HTTPError, of whatever status: it is printed as missing, the other references are still
\* attempted and the entries processed; every other failure ends the run.
C5_HTTPErrorsRecovered ==
    /\ \A p \in 1..Len(io) :
          io[p].op = "urlretrieve" =>
             /\ io[p].result \in HTTPErrors =>
                   ~(p = Len(io) /\ pc = "crashed" /\ error.at = "get_audio")
             /\ io[p].result \in OtherErrors =>
                   p = Len(io) /\ pc = "crashed" /\ error.at = "get_audio"
    /\ pc \in {"audio", "entries", "senses"} =>
          /\ Printed("is missing", PrintedForWord)
                = Cardinality({p \in Calls("urlretrieve", wi) : io[p].result \in HTTPErrors})
          /\ Cardinality(Calls("urlretrieve", wi)) = ai
    /\ InParse => ai = Len(audio_files)

\* C5's case: after an HTTP 500 for one file the next file was attempted and a row written
C5_Witness ==
    \E p \in 1..Len(io) : \E q \in (p + 1)..Len(io) : \E r \in (q + 1)..Len(io) :
       /\ io[p].op = "urlretrieve" /\ io[p].result = "HTTPError 500"
       /\ io[q].op = "urlretrieve" /\ io[q].w = io[p].w
       /\ io[r].op = "write" /\ io[r].w = io[p].w

\* the references of the word that put_sound_tags was given
Refs == {audio_files[k] : k \in 1..Len(audio_files)}

\* C6 as claimed: the references having distinct URLs, the text put_sound_tags returns has
\* no occurrence of any of the URLs and has the marker of every one of them.
C6_AllReferencesReplaced ==
    InParse /\ Cardinality(Refs) = Len(audio_files) =>
       \A audio \in Refs :
          /\ ~Occurs(audio, new_html)
          /\ Occurs(SoundTag(audio), new_html)

\* C10 as claimed: a reference whose download was skipped is among the references returned,
\* and like every other it is replaced by its marker in the text.
C10_SkippedReferencesReplaced ==
    InParse =>
       \A p \in Calls("urlretrieve", wi) :
          io[p].result \in HTTPErrors =>
             /\ io[p].arg \in Refs
             /\ SearchFileName(io[p].arg) \notin media
             /\ ~Occurs(io[p].arg, new_html)
             /\ Occurs(SoundTag(io[p].arg), new_html)

\* C8 as claimed: parse_info raises no error whatever header element is absent, the
\* headword among them.
C8_HeaderNeverFails == pc = "crashed" => error.at # "parse_info"

\* the header fields of parse_info's result that are taken under try/except, with the
\* elements they are taken from
OptionalFields(entry) ==
    <<entry.PRON, entry.AMEVARPRON, entry.LEVEL, entry.POS, entry.GRAM>>

\* C8, amended: for each of British IPA, American IPA, frequency marker, part of speech and
\* grammar note, independently of the others, an absent element gives the empty string and
\* the row of the entry is written with it; parse_info raises an error only when the
\* page has no headword element.
C8_AbsentFieldsEmpty ==
    /\ pc = "senses" =>
          \A f \in 1..5 :
             OptionalFields(soup.entries[ei + 1])[f] = None <=> header[3 + f] = <<>>
    /\ pc = "entries" /\ ei >= 1 /\ ei \in Accepted(ei) =>
          \A f \in 1..5 :
             OptionalFields(soup.entries[ei])[f] = None
                <=> Strip(Fields(text[Len(text)])[5 + f]) = <<>>
    /\ pc = "crashed" /\ error.at = "parse_info" => soup.title = None

\* C8's case: the row of an entry without British IPA and with American IPA is written
C8_Witness ==
    /\ pc = "entries"
    /\ ei >= 1
    /\ ei \in Accepted(ei)
    /\ soup.entries[ei].PRON = None
    /\ soup.entries[ei].AMEVARPRON # None
    /\ Fields(text[Len(text)])[6] = <<>>
    /\ Fields(text[Len(text)])[7] # <<>>

\* C7 as claimed: the markup of the first Sense span having exactly one DEF span, what the
\* keyword and cloze steps give for it, the counter at 1, has that span in a {{c1::...}}
\* marker and no other marker.
C7_SingleDEFClozed ==
    pc = "senses" /\ si = 1 /\ Count(entries[1], DEFOpen) = 1 =>
       /\ Occurs(<<"{","{","c","1",":",":">> \o DEFOpen, ankified_entries)
       /\ Count(ankified_entries, <<"{","{","c">>) = 1

\* the Sense spans among the first n whose tagged meaning has a DEF span
Clozed(n) == {j \in 1..n : HasDEF(TaggedMeaning(entries[j], header[2]))}

\* the records of the first n Sense spans, one after the other
RECURSIVE SenseRecords(_)
SenseRecords(n) ==
    IF n = 0 THEN <<>>
    ELSE SenseRecords(n - 1)
            \o Ankify(entries[n], header[2], 1 + Cardinality(Clozed(n - 1)))

=============================================================================
